---- MODULE Spec2Model ----
(***************************************************************************)
(* EVE Task Manager: the task registry (TaskManager.tasks, _task_map), the *)
(* dependency graph stored in the tasks' depends_on_ids, the               *)
(* Pendente/Concluida life cycle and the projects/contexts of the tasks,   *)
(* modelled from src/core/task.py and src/core/task_manager.py.            *)
(*                                                                         *)
(* Spec is the behaviour of the dependency and life-cycle operations on    *)
(* any stored file of untagged records; SpecTags is the behaviour of the   *)
(* project/context operations on any stored file of tagged records.        *)
(*                                                                         *)
(* A Task object is a record; a reference to a Task object is its position *)
(* in self.tasks (every object _task_map refers to is an element of the    *)
(* list), so _task_map maps an id to a position of tasks.                  *)
(* The status strings are written without the accent: "Concluida" stands   *)
(* for "Concluída", "Media" for "Média".                                   *)
(***************************************************************************)
EXTENDS Naturals, Sequences, FiniteSets

\* ------------------------------------------------------------------ bounds
\* Number of distinct task ids (uuid4 values) in the model.
NumIds == 3
\* Largest number of records in the stored JSON file read at construction.
MaxStored == 2
\* Number of distinct clock readings datetime.now() can return.
MaxTime == 1
\* Largest number of keyword arguments in one update_task call.
MaxUpdateKeys == 2

\* Largest number of tasks in the registry of the projects/contexts behaviour.
MaxTagged == 2

\* Number of distinct calendar dates a due date can be.
NumDates == 2
\* Largest number of tasks in the registry of the listing behaviour.
MaxListed == 2

Ids == 1..NumIds
Times == 1..MaxTime
\* The calendar dates, in order; the last one is datetime.date.max.
Dates == 1..NumDates
date_max == NumDates
\* Python None, as the value of a date or of a datetime.
None == 0

\* ------------------------------------------------------------------ tags
\* A project or context name is a string, modelled as the sequence of its
\* characters; the characters are a lower-case letter, its upper-case form,
\* a space and a tab.
Whitespace == {" ", "\t"}
TagChars == {"w", "W"} \cup Whitespace

\* The project names passed by the callers: " ", "w", " W " and "w\t w".
ProjectInputs ==
    {<<" ">>, <<"w">>, <<" ", "W", " ">>, <<"w", "\t", " ", "w">>}

\* The context names passed by the callers: " " and "W".
ContextInputs == {<<" ">>, <<"W">>}

\* set(list): the elements of a Python list.
set_of(list) == {list[i] : i \in DOMAIN list}

\* list(set): the elements of a Python set in the order the set yields them.
list_of(set) ==
    IF set = {} THEN <<>>
    ELSE CHOOSE list \in [1..Cardinality(set) -> set] : set_of(list) = set

\* ------------------------------------------------------------------ dates as text
\* A string that holds a date or a datetime is the sequence of the values
\* written in it; the empty string and JSON null are both the empty sequence
\* (the code tests them for truth alone).
null == <<>>
\* date.isoformat() and datetime.isoformat()
isoformat(d) == <<d>>
\* datetime.fromisoformat
fromisoformat(text) == text[1]
\* A string strptime rejects, such as "31/12/2024".
BadDateStr == <<0>>
\* datetime.strptime(text, "%Y-%m-%d") raises ValueError.
strptime_raises(text) == Len(text) # 1 \/ text[1] \notin Dates
\* datetime.strptime(text, "%Y-%m-%d").date()
strptime(text) == text[1]

\* str.lstrip() and str.rstrip() of whitespace.
RECURSIVE lstrip(_)
lstrip(s) == IF s # <<>> /\ Head(s) \in Whitespace THEN lstrip(Tail(s)) ELSE s

RECURSIVE rstrip(_)
rstrip(s) ==
    IF s # <<>> /\ s[Len(s)] \in Whitespace THEN rstrip(SubSeq(s, 1, Len(s) - 1)) ELSE s

\* re.sub(r'\s+', ' ', tag): every maximal run of whitespace becomes one space.
RECURSIVE sub_whitespace(_)
sub_whitespace(s) ==
    IF s = <<>> THEN <<>>
    ELSE IF Head(s) \in Whitespace THEN <<" ">> \o sub_whitespace(lstrip(s))
    ELSE <<Head(s)>> \o sub_whitespace(Tail(s))

\* str.lower()
lower(s) == [i \in DOMAIN s |-> IF s[i] = "W" THEN "w" ELSE s[i]]

\* Variant of _normalize_tag that does not change the case.
normalize_tag_keeps_case(tag) == rstrip(lstrip(sub_whitespace(tag)))

\* TaskManager._normalize_tag
_normalize_tag(tag) == lower(rstrip(lstrip(sub_whitespace(tag))))

\* ------------------------------------------------------------------ Task
VALID_PRIORITIES == {"Alta", "Media", "Baixa"}
VALID_STATUSES == {"Pendente", "Concluida"}
EISENHOWER_QUADRANTS == {"Q1", "Q2", "Q3", "Q4"}

\* get_task_by_id's None result.
NoTask ==
    [task_id |-> 0, priority |-> "None", status |-> "None", due_date |-> None,
     creation_date |-> None, completion_date |-> None, depends_on_ids |-> {},
     projects |-> {}, contexts |-> {}]

\* Task.__init__ raises ValueError on these arguments.
TaskInitRaises(title, priority, status, due_date_str) ==
    \/ title = ""
    \/ priority \notin VALID_PRIORITIES
    \/ status \notin VALID_STATUSES
    \/ due_date_str # null /\ strptime_raises(due_date_str)

\* Task.__init__: the object built from valid arguments; now is the clock
\* reading taken for a task that arrives without a creation date and for a
\* Concluida task that arrives without a completion date.
\* projects and contexts are the values of set(projects), set(contexts).
Task(task_id, priority, status, due_date_str, creation_date, completion_date, depends_on_ids, projects, contexts, now) ==
    [task_id |-> task_id,
     priority |-> priority,
     status |-> status,
     due_date |-> IF due_date_str # null THEN strptime(due_date_str) ELSE None,
     creation_date |-> IF creation_date # None THEN creation_date ELSE now,
     completion_date |->
        IF status = "Concluida" /\ completion_date = None THEN now
        ELSE IF status = "Pendente" THEN None
        ELSE completion_date,
     depends_on_ids |-> depends_on_ids,
     projects |-> projects,
     contexts |-> contexts]

\* Variant of mark_complete that sets the status and forgets the date.
mark_complete_keeps_date(task, now) ==
    IF task.status = "Pendente" THEN [task EXCEPT !.status = "Concluida"] ELSE task

\* Task.mark_complete
mark_complete(task, now) ==
    IF task.status = "Pendente"
    THEN [task EXCEPT !.status = "Concluida", !.completion_date = now]
    ELSE task

\* Variant of mark_pending that clears the creation date with the
\* completion date.
mark_pending_clears_creation_date(task) ==
    IF task.status = "Concluida"
    THEN [task EXCEPT !.status = "Pendente", !.completion_date = None,
                      !.creation_date = None]
    ELSE task

\* Task.mark_pending
mark_pending(task) ==
    IF task.status = "Concluida"
    THEN [task EXCEPT !.status = "Pendente", !.completion_date = None]
    ELSE task

\* The keyword arguments of Task.update / update_task: keys is the set of
\* keys passed, the other fields are their values (UpdateUnset for a key
\* that is not passed). Each key is drawn with a value the code accepts and,
\* where there is one, a value it rejects. creation_date is a key Task.update
\* has no branch for.
AllUpdateKeys ==
    {"title", "due_date_str", "priority", "status", "eisenhower_quadrant",
     "depends_on_ids", "projects", "contexts", "creation_date"}
UpdateUnset ==
    [title |-> "t", due_date_str |-> null, priority |-> "Media", status |-> "Pendente",
     eisenhower_quadrant |-> "Q1", depends_on_ids |-> Ids,
     projects |-> <<<<" ", "W", " ">>>>, contexts |-> <<<<" ", "W", " ">>>>,
     creation_date |-> None]
\* The calls that pass at most MaxUpdateKeys of the keys, with a priority
\* out of priorities and a due date string out of due_date_strs.
UpdatesOver(keys, priorities, due_date_strs) ==
    {u \in [keys : SUBSET keys,
            title : {"", "t"},
            due_date_str : due_date_strs \cup {UpdateUnset.due_date_str},
            priority : priorities \cup {UpdateUnset.priority},
            status : {"Pendente", "Concluida", "Invalido"},
            eisenhower_quadrant : {"Q1", "Q9"},
            depends_on_ids : {Ids},
            projects : {<<<<" ", "W", " ">>>>},
            contexts : {<<<<" ", "W", " ">>>>},
            creation_date : {None}] :
        /\ Cardinality(u.keys) <= MaxUpdateKeys
        /\ \A k \in AllUpdateKeys \ u.keys : u[k] = UpdateUnset[k]}

\* The calls of the dependency and life-cycle behaviour: the priority passed
\* is the one every task of that behaviour has, or an unknown one.
UpdateKeys == AllUpdateKeys \ {"due_date_str"}
Updates == UpdatesOver(UpdateKeys, {"Media", "Urgente"}, {})

\* Task.update: the task after the call and whether ValueError was raised.
\* The fields are handled in the order of the code, so a raise keeps what
\* was assigned before it.
update(task, updates, now) ==
    LET has(k) == k \in updates.keys
        t1 == IF has("due_date_str")
              THEN [task EXCEPT !.due_date =
                       IF updates.due_date_str = null THEN None
                       ELSE strptime(updates.due_date_str)]
              ELSE task
        t2 == IF has("priority") THEN [t1 EXCEPT !.priority = updates.priority] ELSE t1
        t3 == IF has("status")
              THEN IF updates.status = "Concluida" /\ t2.status = "Pendente"
                   THEN mark_complete(t2, now)
                   ELSE IF updates.status = "Pendente" /\ t2.status = "Concluida"
                   THEN mark_pending(t2)
                   ELSE t2
              ELSE t2
    IN IF has("title") /\ updates.title = ""
       THEN [task |-> task, raised |-> TRUE]
       ELSE IF /\ has("due_date_str")
               /\ updates.due_date_str # null
               /\ strptime_raises(updates.due_date_str)
       THEN [task |-> task, raised |-> TRUE]
       ELSE IF has("priority") /\ updates.priority \notin VALID_PRIORITIES
       THEN [task |-> t1, raised |-> TRUE]
       ELSE IF has("status") /\ updates.status \notin VALID_STATUSES
       THEN [task |-> t2, raised |-> TRUE]
       ELSE IF /\ has("eisenhower_quadrant")
               /\ updates.eisenhower_quadrant \notin EISENHOWER_QUADRANTS
       THEN [task |-> t3, raised |-> TRUE]
       ELSE [task |->
                [t3 EXCEPT
                   !.depends_on_ids =
                      IF has("depends_on_ids") THEN updates.depends_on_ids ELSE @,
                   !.projects = IF has("projects") THEN set_of(updates.projects) ELSE @,
                   !.contexts = IF has("contexts") THEN set_of(updates.contexts) ELSE @],
             raised |-> FALSE]

\* ------------------------------------------------------------------ storage
\* The dicts of the stored file that Task.from_dict reads: records of
\* priority Media without a due date, written without the projects and
\* contexts keys, for which data.get gives [].
StoredDicts ==
    [task_id : Ids,
     priority : {"Media"},
     status : {"Pendente", "Concluida", "Invalido"},
     due_date : {null},
     creation_date : {null} \cup {isoformat(t) : t \in Times},
     completion_date : {null} \cup {isoformat(t) : t \in Times},
     depends_on_ids : {list_of(ids) : ids \in SUBSET Ids},
     projects : {<<>>},
     contexts : {<<>>}]

\* The lists of names found under the projects key of a record: [], [" W "]
\* and ["w", "w w", "w"].
StoredProjectLists ==
    {<<>>, <<<<" ", "W", " ">>>>, <<<<"w">>, <<"w", " ", "w">>, <<"w">>>>}

\* The lists of names found under the contexts key of a record: [] and ["w"].
StoredContextLists == {<<>>, <<<<"w">>>>}

\* The dicts of a stored file of Pendente tasks without dependencies that
\* carry projects and contexts.
StoredTaggedDicts ==
    [task_id : Ids,
     priority : {"Media"},
     status : {"Pendente"},
     due_date : {null},
     creation_date : {isoformat(t) : t \in Times},
     completion_date : {null},
     depends_on_ids : {<<>>},
     projects : StoredProjectLists,
     contexts : StoredContextLists]

\* The stored files of n records taken from dicts.
StoredFiles(n, dicts) == [1..n -> dicts]

\* The records of the stored file have pairwise distinct ids.
DistinctIds(file) ==
    \A i, j \in DOMAIN file : i # j => file[i].task_id # file[j].task_id

\* Task.from_dict (the title of a stored record is valid).
from_dict(data, now) ==
    Task(data.task_id, data.priority, data.status, data.due_date,
         IF data.creation_date # null THEN fromisoformat(data.creation_date) ELSE None,
         IF data.completion_date # null THEN fromisoformat(data.completion_date) ELSE None,
         set_of(data.depends_on_ids), set_of(data.projects), set_of(data.contexts), now)

FromDictRaises(data) == TaskInitRaises("t", data.priority, data.status, data.due_date)

\* Variant of to_dict that writes the record as it was before dependencies,
\* projects and contexts were added to it.
to_dict_without_new_fields(task) ==
    [task_id |-> task.task_id,
     priority |-> task.priority,
     status |-> task.status,
     due_date |-> IF task.due_date # None THEN isoformat(task.due_date) ELSE null,
     creation_date |-> isoformat(task.creation_date),
     completion_date |->
        IF task.completion_date # None THEN isoformat(task.completion_date) ELSE null,
     depends_on_ids |-> <<>>,
     projects |-> <<>>,
     contexts |-> <<>>]

\* Task.to_dict
to_dict(task) ==
    [task_id |-> task.task_id,
     priority |-> task.priority,
     status |-> task.status,
     due_date |-> IF task.due_date # None THEN isoformat(task.due_date) ELSE null,
     creation_date |-> isoformat(task.creation_date),
     completion_date |->
        IF task.completion_date # None THEN isoformat(task.completion_date) ELSE null,
     depends_on_ids |-> list_of(task.depends_on_ids),
     projects |-> list_of(task.projects),
     contexts |-> list_of(task.contexts)]

\* FileStorage.save_tasks, line 63: the list of dicts written to the file.
tasks_data(ts) == [i \in DOMAIN ts |-> to_dict(ts[i])]

\* Variant of load_tasks that removes from the tasks read the dependency
\* ids that are ids of none of them.
load_tasks_pruning(file, nows) ==
    LET kept == SelectSeq([i \in DOMAIN file |-> [data |-> file[i], now |-> nows[i]]],
                          LAMBDA e : ~FromDictRaises(e.data))
        ts == [i \in DOMAIN kept |-> from_dict(kept[i].data, kept[i].now)]
    IN [i \in DOMAIN ts |->
           [ts[i] EXCEPT !.depends_on_ids = @ \cap {ts[j].task_id : j \in DOMAIN ts}]]

\* FileStorage.load_tasks: the records that raise are skipped.
load_tasks(file, nows) ==
    LET kept == SelectSeq([i \in DOMAIN file |-> [data |-> file[i], now |-> nows[i]]],
                          LAMBDA e : ~FromDictRaises(e.data))
    IN [i \in DOMAIN kept |-> from_dict(kept[i].data, kept[i].now)]

\* {task.task_id: task for task in self.tasks}: the last task of an id wins.
TaskMapOf(ts) ==
    [id \in {ts[i].task_id : i \in DOMAIN ts} |->
        CHOOSE i \in DOMAIN ts :
            /\ ts[i].task_id = id
            /\ \A j \in DOMAIN ts : ts[j].task_id = id => j <= i]

\* ------------------------------------------------------------------ state
VARIABLES
    tasks,      \* self.tasks: the list of Task objects
    _task_map,  \* self._task_map: id -> position in tasks of the object it names
    last,       \* the call that has not returned to its caller yet: operation,
                \* arguments (tag is the project or context name passed,
                \* args the arguments of add_task), return value, message printed, ids reported with it,
                \* ids printed as removed unknown dependencies, number of
                \* calls of save_tasks and which of them printed a write
                \* error, the arguments and the result of list_tasks; NoCall
                \* between calls
    scn,        \* progress of the complete/uncomplete scenario (observer)
    saved,      \* observer of the storage: the list of dicts
                \* FileStorage.save_tasks built at its last call (called is
                \* FALSE as long as there was no such call); observed is
                \* FALSE in the behaviours that do not watch the writes:
                \* there the observer holds at most the list of dicts
                \* load_tasks has read, and nothing once a call was made
    faulty      \* whether writing the file can fail (IOError and the like)

vars == <<tasks, _task_map, last, scn, saved, faulty>>

\* The filters argument of list_tasks: keys is the set of keys of the dict
\* (empty for None), status and priority are the values of those keys.
ListFilters ==
    {f \in [keys : SUBSET {"status", "priority"},
            status : {"", "Pendente"},
            priority : {"", "Alta"}] :
        /\ f.status # "" <=> "status" \in f.keys
        /\ f.priority # "" <=> "priority" \in f.keys}
NoFilters == [keys |-> {}, status |-> "", priority |-> ""]

\* The args of a call that is not add_task.
NoArgs ==
    [title |-> "", priority |-> "", depends_on_ids |-> {},
     projects |-> <<>>, contexts |-> <<>>]

\* The value of last between two calls.
NoCall ==
    [op |-> "none", task_id |-> 0, dependency_id |-> 0, tag |-> <<>>, args |-> NoArgs,
     ret |-> TRUE, msg |-> "None", reported |-> {}, pruned |-> {},
     saves |-> 0, save_errors |-> {}, filters |-> NoFilters, sort_by |-> "", listed |-> <<>>]

\* What a call returns and prints, with the task list it leaves and the
\* task lists it has passed to the storage, in order.
Result(ts, ret, msg, reported) ==
    [tasks |-> ts, map |-> _task_map, ret |-> ret, msg |-> msg, reported |-> reported,
     pruned |-> {}, snapshots |-> <<>>]

\* Variant of save_tasks that passes nothing to the storage.
save_tasks_skipped(r) == r

\* TaskManager.save_tasks, called when the call has come to result r: the
\* whole of self.tasks is passed to FileStorage.save_tasks.
save_tasks(r) == [r EXCEPT !.snapshots = Append(@, r.tasks)]

\* TaskManager.get_task_by_id
get_task_by_id(task_id) ==
    IF task_id \in DOMAIN _task_map THEN tasks[_task_map[task_id]] ELSE NoTask

RECURSIVE _check_circular_dependency(_, _, _)
\* Variant of _check_circular_dependency that looks at the dependencies of
\* dependency_id and no further.
check_direct_dependency_only(task_id, dependency_id, visited) ==
    LET task == get_task_by_id(dependency_id)
    IN task # NoTask /\ task_id \in task.depends_on_ids

\* Variant of _check_circular_dependency that returns the answer of the first
\* dependency it follows instead of going on to the next one.
check_first_branch_only(task_id, dependency_id, visited) ==
    LET task == get_task_by_id(dependency_id)
    IN IF task = NoTask \/ task.depends_on_ids = {} THEN FALSE
       ELSE LET visited1 == visited \cup {dependency_id}
                first == CHOOSE d \in task.depends_on_ids :
                            \A e \in task.depends_on_ids : d <= e
            IN \/ first = task_id
               \/ /\ first \notin visited1
                  /\ _check_circular_dependency(task_id, first, visited1)

\* TaskManager._check_circular_dependency: the loop returns True at the first
\* dependency that is task_id or from which the recursion returns True, so
\* its result does not depend on the iteration order of the set; visited is
\* copied for every recursive call, so it holds the ids on the current path.
_check_circular_dependency(task_id, dependency_id, visited) ==
    LET task == get_task_by_id(dependency_id)
    IN IF task = NoTask THEN FALSE
       ELSE LET visited1 == visited \cup {dependency_id}
            IN \E dep_of_dep_id \in task.depends_on_ids :
                  \/ dep_of_dep_id = task_id
                  \/ /\ dep_of_dep_id \notin visited1
                     /\ _check_circular_dependency(task_id, dep_of_dep_id, visited1)

\* The deepest nesting of calls followed before a run of the check is given
\* up as not coming to an end.
MaxDepth == NumIds + 1

RECURSIVE check_calls_without_visited(_, _, _, _)
\* Variant of check_calls that follows a dependency whether or not it is in
\* visited.
check_calls_without_visited(task_id, dependency_id, visited, depth) ==
    LET task == get_task_by_id(dependency_id)
        call == [dependency_id |-> dependency_id, visited |-> visited, depth |-> depth]
    IN IF task = NoTask \/ depth > MaxDepth THEN {call}
       ELSE LET visited1 == visited \cup {dependency_id}
            IN {call} \cup UNION {check_calls_without_visited(task_id, dep_of_dep_id,
                                                              visited1, depth + 1) :
                                     dep_of_dep_id \in task.depends_on_ids \ {task_id}}

RECURSIVE check_calls(_, _, _, _)
\* The calls of _check_circular_dependency that the call with these
\* arguments, itself at nesting depth, can lead to: each with its
\* dependency_id, the visited set it is passed and its depth. The loop makes
\* a call for a dependency that is not task_id and not in visited when it
\* gets to it before it returns, which it does for some iteration order of
\* the set.
check_calls(task_id, dependency_id, visited, depth) ==
    LET task == get_task_by_id(dependency_id)
        call == [dependency_id |-> dependency_id, visited |-> visited, depth |-> depth]
    IN IF task = NoTask \/ depth > MaxDepth THEN {call}
       ELSE LET visited1 == visited \cup {dependency_id}
            IN {call} \cup UNION {check_calls(task_id, dep_of_dep_id, visited1, depth + 1) :
                                     dep_of_dep_id \in (task.depends_on_ids \ {task_id})
                                                          \ visited1}

\* Variant of incomplete_deps that stops at the first Pendente dependency.
incomplete_deps_first_only(task) ==
    LET all == {dep_id \in task.depends_on_ids :
                   /\ get_task_by_id(dep_id) # NoTask
                   /\ get_task_by_id(dep_id).status = "Pendente"}
    IN IF all = {} THEN {} ELSE {CHOOSE d \in all : \A e \in all : d <= e}

\* can_complete_task, lines 184-189: the dependencies that are live and Pendente.
incomplete_deps(task) ==
    {dep_id \in task.depends_on_ids :
        /\ get_task_by_id(dep_id) # NoTask
        /\ get_task_by_id(dep_id).status = "Pendente"}

\* Variant of missing_deps that stops at the first unknown id.
missing_deps_first_only(task) ==
    LET all == {dep_id \in task.depends_on_ids : get_task_by_id(dep_id) = NoTask}
    IN IF all = {} THEN {} ELSE {CHOOSE d \in all : \A e \in all : d <= e}

\* can_complete_task, lines 185-188: the dependencies that name no live task.
missing_deps(task) ==
    {dep_id \in task.depends_on_ids : get_task_by_id(dep_id) = NoTask}

\* Variant of can_complete_task that does not look at the dependencies.
can_complete_task_unchecked(task_id) ==
    IF get_task_by_id(task_id) = NoTask THEN Result(tasks, FALSE, "NotFound", {})
    ELSE Result(tasks, TRUE, "None", {})

\* Variant of can_complete_task that keeps the ids that resolve to no task
\* and takes them for dependencies that are not complete.
can_complete_task_keeps_missing(task_id) ==
    LET task == get_task_by_id(task_id)
    IN IF task = NoTask THEN Result(tasks, FALSE, "NotFound", {})
       ELSE IF task.depends_on_ids = {} THEN Result(tasks, TRUE, "None", {})
       ELSE IF incomplete_deps(task) \cup missing_deps(task) # {}
       THEN Result(tasks, FALSE, "Blocked", incomplete_deps(task) \cup missing_deps(task))
       ELSE Result(tasks, TRUE, "None", {})

\* TaskManager.can_complete_task
can_complete_task(task_id) ==
    LET task == get_task_by_id(task_id)
    IN IF task = NoTask THEN Result(tasks, FALSE, "NotFound", {})
       ELSE IF task.depends_on_ids = {} THEN Result(tasks, TRUE, "None", {})
       ELSE LET pruned == [tasks EXCEPT ![_task_map[task_id]].depends_on_ids =
                                            @ \ missing_deps(task)]
                r == IF incomplete_deps(task) # {}
                     THEN [Result(pruned, FALSE, "Blocked", incomplete_deps(task))
                              EXCEPT !.pruned = missing_deps(task)]
                     ELSE [Result(pruned, TRUE, "None", {})
                              EXCEPT !.pruned = missing_deps(task)]
            IN IF missing_deps(task) # {} THEN save_tasks(r) ELSE r

\* Variant of mark_task_complete that, when it completes the task, removes
\* the ids that resolve to no task from the depends_on_ids of every task.
mark_task_complete_prunes_all(task_id, now) ==
    LET can == can_complete_task(task_id)
    IN IF ~can.ret THEN can
       ELSE LET task == can.tasks[_task_map[task_id]]
                done == [can.tasks EXCEPT ![_task_map[task_id]] = mark_complete(task, now)]
            IN IF task.status = "Pendente"
               THEN save_tasks([Result([i \in DOMAIN done |->
                                           [done[i] EXCEPT !.depends_on_ids =
                                               @ \cap DOMAIN _task_map]],
                                       TRUE, "None", {})
                                   EXCEPT !.pruned = can.pruned,
                                          !.snapshots = can.snapshots])
               ELSE [Result(can.tasks, FALSE, "AlreadyComplete", {})
                        EXCEPT !.pruned = can.pruned, !.snapshots = can.snapshots]

\* TaskManager.mark_task_complete: ret is TRUE when the task is returned.
mark_task_complete(task_id, now) ==
    LET can == can_complete_task(task_id)
    IN IF ~can.ret THEN can
       ELSE LET task == can.tasks[_task_map[task_id]]
            IN IF task.status = "Pendente"
               THEN save_tasks([Result([can.tasks EXCEPT ![_task_map[task_id]] =
                                                           mark_complete(task, now)],
                                       TRUE, "None", {})
                                   EXCEPT !.pruned = can.pruned,
                                          !.snapshots = can.snapshots])
               ELSE [Result(can.tasks, FALSE, "AlreadyComplete", {})
                        EXCEPT !.pruned = can.pruned, !.snapshots = can.snapshots]

\* Variant of blocked_completed_tasks that finds no dependent.
blocked_completed_tasks_none(task_id) == {}

\* mark_task_pending, lines 218-221: the Concluida tasks of the list that
\* have task_id in their depends_on_ids.
blocked_completed_tasks(task_id) ==
    {tasks[i].task_id : i \in {j \in DOMAIN tasks :
        task_id \in tasks[j].depends_on_ids /\ tasks[j].status = "Concluida"}}

\* TaskManager.mark_task_pending
mark_task_pending(task_id) ==
    LET task == get_task_by_id(task_id)
    IN IF task = NoTask THEN Result(tasks, FALSE, "NotFound", {})
       ELSE IF task.status = "Pendente" THEN Result(tasks, FALSE, "AlreadyPending", {})
       ELSE IF blocked_completed_tasks(task_id) # {}
       THEN Result(tasks, FALSE, "WouldInvalidate", blocked_completed_tasks(task_id))
       ELSE save_tasks(Result([tasks EXCEPT ![_task_map[task_id]] = mark_pending(task)],
                   TRUE, "None", {}))

\* Variant of add_dependency that passes the ids to the cycle check in the
\* wrong order.
add_dependency_swapped_check(task_id, dependency_id) ==
    LET task == get_task_by_id(task_id)
        dependency_task == get_task_by_id(dependency_id)
    IN IF task = NoTask THEN Result(tasks, FALSE, "NotFound", {})
       ELSE IF dependency_task = NoTask THEN Result(tasks, FALSE, "NotFound", {})
       ELSE IF task_id = dependency_id THEN Result(tasks, FALSE, "SelfDependency", {})
       ELSE IF dependency_id \in task.depends_on_ids
       THEN Result(tasks, TRUE, "AlreadyDepends", {})
       ELSE IF _check_circular_dependency(dependency_id, task_id, {})
       THEN Result(tasks, FALSE, "CycleDetected", {})
       ELSE save_tasks(Result([tasks EXCEPT ![_task_map[task_id]].depends_on_ids =
                                     @ \cup {dependency_id}],
                   TRUE, "Added", {}))

\* Variant of add_dependency without the test of line 241.
add_dependency_no_self_check(task_id, dependency_id) ==
    LET task == get_task_by_id(task_id)
        dependency_task == get_task_by_id(dependency_id)
    IN IF task = NoTask THEN Result(tasks, FALSE, "NotFound", {})
       ELSE IF dependency_task = NoTask THEN Result(tasks, FALSE, "NotFound", {})
       ELSE IF dependency_id \in task.depends_on_ids
       THEN Result(tasks, TRUE, "AlreadyDepends", {})
       ELSE IF _check_circular_dependency(task_id, dependency_id, {})
       THEN Result(tasks, FALSE, "CycleDetected", {})
       ELSE save_tasks(Result([tasks EXCEPT ![_task_map[task_id]].depends_on_ids =
                                     @ \cup {dependency_id}],
                   TRUE, "Added", {}))

\* Variant of add_dependency that refuses a dependency the task already has.
add_dependency_refuses_existing(task_id, dependency_id) ==
    LET task == get_task_by_id(task_id)
        dependency_task == get_task_by_id(dependency_id)
    IN IF task = NoTask THEN Result(tasks, FALSE, "NotFound", {})
       ELSE IF dependency_task = NoTask THEN Result(tasks, FALSE, "NotFound", {})
       ELSE IF task_id = dependency_id THEN Result(tasks, FALSE, "SelfDependency", {})
       ELSE IF dependency_id \in task.depends_on_ids
       THEN Result(tasks, FALSE, "AlreadyDepends", {})
       ELSE IF _check_circular_dependency(task_id, dependency_id, {})
       THEN Result(tasks, FALSE, "CycleDetected", {})
       ELSE save_tasks(Result([tasks EXCEPT ![_task_map[task_id]].depends_on_ids =
                                     @ \cup {dependency_id}],
                   TRUE, "Added", {}))

\* TaskManager.add_dependency: msg names the message printed.
add_dependency(task_id, dependency_id) ==
    LET task == get_task_by_id(task_id)
        dependency_task == get_task_by_id(dependency_id)
    IN IF task = NoTask THEN Result(tasks, FALSE, "NotFound", {})
       ELSE IF dependency_task = NoTask THEN Result(tasks, FALSE, "NotFound", {})
       ELSE IF task_id = dependency_id THEN Result(tasks, FALSE, "SelfDependency", {})
       ELSE IF dependency_id \in task.depends_on_ids
       THEN Result(tasks, TRUE, "AlreadyDepends", {})
       ELSE IF _check_circular_dependency(task_id, dependency_id, {})
       THEN Result(tasks, FALSE, "CycleDetected", {})
       ELSE save_tasks(Result([tasks EXCEPT ![_task_map[task_id]].depends_on_ids =
                                     @ \cup {dependency_id}],
                   TRUE, "Added", {}))

\* Variant of remove_dependency that empties depends_on_ids.
remove_dependency_clears_all(task_id, dependency_id) ==
    LET task == get_task_by_id(task_id)
    IN IF task = NoTask THEN Result(tasks, FALSE, "NotFound", {})
       ELSE IF dependency_id \notin task.depends_on_ids
       THEN Result(tasks, FALSE, "NotDependent", {})
       ELSE save_tasks(Result([tasks EXCEPT ![_task_map[task_id]].depends_on_ids = {}],
                   TRUE, "Removed", {}))

\* TaskManager.remove_dependency
remove_dependency(task_id, dependency_id) ==
    LET task == get_task_by_id(task_id)
    IN IF task = NoTask THEN Result(tasks, FALSE, "NotFound", {})
       ELSE IF dependency_id \notin task.depends_on_ids
       THEN Result(tasks, FALSE, "NotDependent", {})
       ELSE save_tasks(Result([tasks EXCEPT ![_task_map[task_id]].depends_on_ids =
                                     @ \ {dependency_id}],
                   TRUE, "Removed", {}))

\* Variant of blocking_tasks that counts the Concluida dependents only.
blocking_tasks_complete_only(task_id) ==
    {tasks[i].task_id : i \in {j \in DOMAIN tasks :
        task_id \in tasks[j].depends_on_ids /\ tasks[j].status = "Concluida"}}

\* delete_task, lines 162-164: the tasks of the list that depend on task_id.
blocking_tasks(task_id) ==
    {tasks[i].task_id : i \in {j \in DOMAIN tasks : task_id \in tasks[j].depends_on_ids}}

\* list.remove of the object at position p.
RemoveAt(ts, p) ==
    [i \in 1..(Len(ts) - 1) |-> IF i < p THEN ts[i] ELSE ts[i + 1]]

\* Variant of MapWithout that leaves the key of the deleted task in the map.
MapWithout_keeps_key(task_id, p) ==
    [id \in DOMAIN _task_map |->
        IF _task_map[id] > p THEN _task_map[id] - 1 ELSE _task_map[id]]

\* del self._task_map[task_id], the object at position p having left the list.
MapWithout(task_id, p) ==
    [id \in DOMAIN _task_map \ {task_id} |->
        IF _task_map[id] > p THEN _task_map[id] - 1 ELSE _task_map[id]]

\* TaskManager.delete_task
delete_task(task_id) ==
    LET task_to_delete == get_task_by_id(task_id)
    IN IF task_to_delete = NoTask THEN Result(tasks, FALSE, "NotFound", {})
       ELSE IF blocking_tasks(task_id) # {}
       THEN Result(tasks, FALSE, "HasDependents", blocking_tasks(task_id))
       ELSE save_tasks([Result(RemoveAt(tasks, _task_map[task_id]), TRUE, "None", {})
                           EXCEPT !.map = MapWithout(task_id, _task_map[task_id])])

\* list.sort(key=..., reverse=...) on a list whose i-th element has key
\* keys[i]: the sort is stable, so an element comes after the elements that
\* go before it by the key and after the equal ones that stood before it.
sort(list, keys, reverse) ==
    LET before(j, i) == \/ (IF reverse THEN keys[j] > keys[i] ELSE keys[j] < keys[i])
                        \/ keys[j] = keys[i] /\ j < i
        place(i) == Cardinality({j \in DOMAIN list : before(j, i)}) + 1
    IN [k \in DOMAIN list |-> list[CHOOSE i \in DOMAIN list : place(i) = k]]

\* Task.VALID_PRIORITIES.index(priority)
priority_index(priority) ==
    IF priority = "Alta" THEN 0 ELSE IF priority = "Media" THEN 1 ELSE 2

\* The key of lines 118, 126 and 130: the due date, datetime.date.max for
\* a task without one.
due_date_key(t) == IF t.due_date # None THEN t.due_date ELSE date_max

\* TaskManager.list_tasks with the status and priority filters and sort_by
\* one of due_date, priority and creation_date.
list_tasks(filters, sort_by) ==
    LET by_status == IF "status" \in filters.keys
                     THEN SelectSeq(tasks, LAMBDA t : t.status = filters.status)
                     ELSE tasks
        filtered_tasks == IF "priority" \in filters.keys
                          THEN SelectSeq(by_status, LAMBDA t : t.priority = filters.priority)
                          ELSE by_status
        keys(list) == [i \in DOMAIN list |->
                          IF sort_by = "priority" THEN priority_index(list[i].priority)
                          ELSE IF sort_by = "creation_date" THEN list[i].creation_date
                          ELSE due_date_key(list[i])]
        first == sort(filtered_tasks, keys(filtered_tasks), sort_by = "creation_date")
        second == IF sort_by # "priority"
                  THEN sort(first, [i \in DOMAIN first |-> priority_index(first[i].priority)],
                            FALSE)
                  ELSE first
    IN IF sort_by # "due_date" /\ sort_by # "creation_date"
       THEN sort(second, [i \in DOMAIN second |-> due_date_key(second[i])], FALSE)
       ELSE second

\* add_task, lines 66-67: the normalized names of a list, the empty names
\* of the list left out.
normalized_tags(names) ==
    {_normalize_tag(names[i]) : i \in {j \in DOMAIN names : names[j] # <<>>}}

\* Variant of add_task that tests only the first of the dependency ids.
add_task_first_dep_only(title, due_date_str, priority, depends_on_ids, projects, contexts, temp_task_id, now) ==
    LET first == IF depends_on_ids = {} THEN {}
                 ELSE {CHOOSE d \in depends_on_ids : \A e \in depends_on_ids : d <= e}
    IN IF \E dep_id \in first : dep_id \notin DOMAIN _task_map
       THEN Result(tasks, FALSE, "NotFound", {})
       ELSE IF TaskInitRaises(title, priority, "Pendente", due_date_str)
       THEN Result(tasks, FALSE, "ValueError", {})
       ELSE save_tasks(
               [Result(Append(tasks, Task(temp_task_id, priority, "Pendente", due_date_str,
                                          None, None, depends_on_ids,
                                          normalized_tags(projects),
                                          normalized_tags(contexts), now)),
                       TRUE, "None", {})
                   EXCEPT !.map = [id \in DOMAIN _task_map \cup {temp_task_id} |->
                                      IF id = temp_task_id THEN Len(tasks) + 1
                                      ELSE _task_map[id]]])

\* TaskManager.add_task; temp_task_id is the uuid4 drawn at line 58. The
\* loop over depends_on_ids raises at the first id that fails a test; when
\* ids of both kinds are passed the model reports the unknown id.
add_task(title, due_date_str, priority, depends_on_ids, projects, contexts, temp_task_id, now) ==
    IF \E dep_id \in depends_on_ids : dep_id \notin DOMAIN _task_map
    THEN Result(tasks, FALSE, "NotFound", {})
    ELSE IF \E dep_id \in depends_on_ids :
                _check_circular_dependency(temp_task_id, dep_id, {})
    THEN Result(tasks, FALSE, "CycleDetected", {})
    ELSE IF TaskInitRaises(title, priority, "Pendente", due_date_str)
    THEN Result(tasks, FALSE, "ValueError", {})
    ELSE save_tasks(
            [Result(Append(tasks, Task(temp_task_id, priority, "Pendente", due_date_str,
                                       None, None, depends_on_ids,
                                       normalized_tags(projects),
                                       normalized_tags(contexts), now)),
                    TRUE, "None", {})
                EXCEPT !.map = [id \in DOMAIN _task_map \cup {temp_task_id} |->
                                   IF id = temp_task_id THEN Len(tasks) + 1
                                   ELSE _task_map[id]]])

\* Variant of pop_depends_on_ids that passes every key on to Task.update.
pop_nothing(updates) == updates

\* update_task, lines 145-147: depends_on_ids, projects and contexts are
\* not passed on to Task.update.
pop_depends_on_ids(updates) ==
    [updates EXCEPT !.keys = @ \ {"depends_on_ids", "projects", "contexts"}]

\* TaskManager.update_task: ret is TRUE when the task is returned, msg is
\* "ValueError" when Task.update raises (what it assigned before stays).
update_task(task_id, updates, now) ==
    LET task == get_task_by_id(task_id)
        completing == /\ "status" \in updates.keys
                      /\ updates.status = "Concluida"
                      /\ task.status = "Pendente"
        can == IF completing THEN can_complete_task(task_id)
               ELSE Result(tasks, TRUE, "None", {})
    IN IF task = NoTask THEN Result(tasks, FALSE, "NotFound", {})
       ELSE IF ~can.ret THEN can
       ELSE LET upd == update(can.tasks[_task_map[task_id]],
                              pop_depends_on_ids(updates), now)
                ts == [can.tasks EXCEPT ![_task_map[task_id]] = upd.task]
                r == [Result(ts, ~upd.raised, IF upd.raised THEN "ValueError" ELSE "None", {})
                         EXCEPT !.pruned = can.pruned, !.snapshots = can.snapshots]
            IN IF upd.raised THEN r ELSE save_tasks(r)

\* The set of names of the kind tag_type ("projeto" or "contexto") of a task.
tag_set(task, tag_type) == IF tag_type = "projeto" THEN task.projects ELSE task.contexts

\* The task list after the names of kind tag_type of the task at position p
\* have become names.
WithTagSet(p, tag_type, names) ==
    IF tag_type = "projeto" THEN [tasks EXCEPT ![p].projects = names]
    ELSE [tasks EXCEPT ![p].contexts = names]

\* TaskManager._add_tag_to_task
_add_tag_to_task(task_id, tag, tag_type) ==
    LET task == get_task_by_id(task_id)
        normalized_tag == _normalize_tag(tag)
    IN IF task = NoTask THEN Result(tasks, FALSE, "NotFound", {})
       ELSE IF normalized_tag = <<>> THEN Result(tasks, FALSE, "InvalidTag", {})
       ELSE IF normalized_tag \in tag_set(task, tag_type)
       THEN Result(tasks, TRUE, "AlreadyTagged", {})
       ELSE save_tasks(Result(WithTagSet(_task_map[task_id], tag_type,
                              tag_set(task, tag_type) \cup {normalized_tag}),
                   TRUE, "TagAdded", {}))

\* TaskManager._remove_tag_from_task
_remove_tag_from_task(task_id, tag, tag_type) ==
    LET task == get_task_by_id(task_id)
        normalized_tag == _normalize_tag(tag)
    IN IF task = NoTask THEN Result(tasks, FALSE, "NotFound", {})
       ELSE IF normalized_tag \notin tag_set(task, tag_type)
       THEN Result(tasks, FALSE, "NotTagged", {})
       ELSE save_tasks(Result(WithTagSet(_task_map[task_id], tag_type,
                              tag_set(task, tag_type) \ {normalized_tag}),
                   TRUE, "TagRemoved", {}))

add_project_to_task(task_id, project_name) ==
    _add_tag_to_task(task_id, project_name, "projeto")

remove_project_from_task(task_id, project_name) ==
    _remove_tag_from_task(task_id, project_name, "projeto")

add_context_to_task(task_id, context_name) ==
    _add_tag_to_task(task_id, context_name, "contexto")

remove_context_from_task(task_id, context_name) ==
    _remove_tag_from_task(task_id, context_name, "contexto")

\* ------------------------------------------------------------------ scenario observer
\* The calls of the scenario on tasks A and B, in order.
Script ==
    <<[op |-> "mark_task_complete", who |-> "B"],
      [op |-> "mark_task_complete", who |-> "A"],
      [op |-> "mark_task_complete", who |-> "B"],
      [op |-> "mark_task_pending", who |-> "A"],
      [op |-> "mark_task_pending", who |-> "B"],
      [op |-> "mark_task_pending", who |-> "A"]>>

ScnIdle == [step |-> 0, A |-> 0, B |-> 0]

\* The scenario's starting registry, seen from B: B is Pendente and depends
\* on exactly one other task A, which is Pendente and has no dependencies,
\* and no Concluida task depends on A or on B.
ScnStart(b) ==
    LET B == get_task_by_id(b)
    IN /\ B # NoTask
       /\ B.status = "Pendente"
       /\ \E a \in Ids \ {b} :
            /\ B.depends_on_ids = {a}
            /\ get_task_by_id(a) # NoTask
            /\ get_task_by_id(a).status = "Pendente"
            /\ get_task_by_id(a).depends_on_ids = {}
            /\ blocked_completed_tasks(a) = {}
            /\ blocked_completed_tasks(b) = {}

\* The observer after the call op(task_id): one step further in the script,
\* at its first step, or idle.
ScnNext(op, task_id) ==
    IF /\ scn.step \in 1..(Len(Script) - 1)
       /\ op = Script[scn.step + 1].op
       /\ task_id = (IF Script[scn.step + 1].who = "A" THEN scn.A ELSE scn.B)
    THEN [scn EXCEPT !.step = @ + 1]
    ELSE IF op = "mark_task_complete" /\ ScnStart(task_id)
    THEN [step |-> 1,
          A |-> CHOOSE a \in Ids : get_task_by_id(task_id).depends_on_ids = {a},
          B |-> task_id]
    ELSE ScnIdle

\* ------------------------------------------------------------------ behaviour
\* TaskManager.__init__ on any stored file of at most MaxStored records
\* taken from dicts.
\* The observer of the storage before the first save_tasks, and the
\* observer that is switched off.
NothingSaved == [observed |-> TRUE, called |-> FALSE, data |-> <<>>]
Unobserved == [observed |-> FALSE, called |-> FALSE, data |-> <<>>]

InitFrom(dicts) ==
    \E n \in 0..MaxStored : \E file \in StoredFiles(n, dicts), nows \in [1..n -> Times] :
        /\ DistinctIds(file)
        /\ tasks = load_tasks(file, nows)
        /\ _task_map = TaskMapOf(load_tasks(file, nows))
        /\ last = NoCall
        /\ scn = ScnIdle

\* The storage writes every file it is asked to write and is not watched.
Init == InitFrom(StoredDicts) /\ saved = Unobserved /\ faulty = FALSE

\* The state after a call with result r; the other arguments of the call
\* are a task id, a project/context name or the arguments of add_task.
\* FileStorage.save_tasks builds the list of dicts of every task list passed
\* to it; when writing one fails it prints the error and returns as it does
\* after a write (lines 69-73), so failed, the calls of it that failed, is
\* seen in what is printed and nowhere else.
\* An observer that does not watch the writes knows nothing of the file
\* after a call.
ApplyArgs(r, op, task_id, dependency_id, tag, args) ==
    \E failed \in (IF faulty THEN SUBSET DOMAIN r.snapshots ELSE {{}}) :
        /\ tasks' = r.tasks
        /\ _task_map' = r.map
        /\ saved' = IF ~saved.observed THEN Unobserved
                     ELSE IF r.snapshots = <<>> THEN saved
                     ELSE [observed |-> TRUE, called |-> TRUE,
                           data |-> tasks_data(r.snapshots[Len(r.snapshots)])]
        /\ last' = [op |-> op, task_id |-> task_id, dependency_id |-> dependency_id,
                    tag |-> tag, args |-> args, ret |-> r.ret, msg |-> r.msg,
                    reported |-> r.reported, pruned |-> r.pruned,
                    saves |-> Len(r.snapshots), save_errors |-> failed,
                    filters |-> NoFilters, sort_by |-> "", listed |-> <<>>]
        /\ scn' = ScnNext(op, task_id)
        /\ UNCHANGED faulty

ApplyCall(r, op, task_id, dependency_id, tag) ==
    ApplyArgs(r, op, task_id, dependency_id, tag, NoArgs)

Apply(r, op, task_id, dependency_id) == ApplyCall(r, op, task_id, dependency_id, <<>>)

\* The ids uuid4 can still return: ids of no task and in no depends_on_ids.
FreshIds ==
    Ids \ (DOMAIN _task_map
           \cup {tasks[i].task_id : i \in DOMAIN tasks}
           \cup UNION {tasks[i].depends_on_ids : i \in DOMAIN tasks})

\* The title and priority arguments drawn for add_task: valid ones, an
\* empty title, an unknown priority.
AddTaskFields ==
    {[title |-> "t", priority |-> "Media"],
     [title |-> "", priority |-> "Media"],
     [title |-> "t", priority |-> "Urgente"]}

\* The program is single-threaded: each call below is made when the one
\* before it has returned (last = NoCall).
\* last.task_id is the id of the task added, 0 when add_task raises.
AddTask ==
    \E f \in AddTaskFields, depends_on_ids \in SUBSET Ids :
        \E temp_task_id \in FreshIds \ depends_on_ids, now \in Times :
            LET r == add_task(f.title, null, f.priority, depends_on_ids, <<>>, <<>>,
                              temp_task_id, now)
            IN /\ last = NoCall
               /\ ApplyArgs(r, "add_task", IF r.ret THEN temp_task_id ELSE 0, 0, <<>>,
                            [title |-> f.title, priority |-> f.priority,
                             depends_on_ids |-> depends_on_ids,
                             projects |-> <<>>, contexts |-> <<>>])

UpdateTask ==
    \E task_id \in Ids, updates \in Updates, now \in Times :
        LET r == update_task(task_id, updates, now)
        IN /\ last = NoCall
           /\ Apply(r, "update_task", task_id, 0)

DeleteTask ==
    \E task_id \in Ids :
        LET r == delete_task(task_id)
        IN /\ last = NoCall
           /\ Apply(r, "delete_task", task_id, 0)

CanCompleteTask ==
    \E task_id \in Ids :
        LET r == can_complete_task(task_id)
        IN /\ last = NoCall
           /\ Apply(r, "can_complete_task", task_id, 0)

MarkTaskComplete ==
    \E task_id \in Ids, now \in Times :
        LET r == mark_task_complete(task_id, now)
        IN /\ last = NoCall
           /\ Apply(r, "mark_task_complete", task_id, 0)

MarkTaskPending ==
    \E task_id \in Ids :
        LET r == mark_task_pending(task_id)
        IN /\ last = NoCall
           /\ Apply(r, "mark_task_pending", task_id, 0)

AddDependency ==
    \E task_id \in Ids, dependency_id \in Ids :
        LET r == add_dependency(task_id, dependency_id)
        IN /\ last = NoCall
           /\ Apply(r, "add_dependency", task_id, dependency_id)

RemoveDependency ==
    \E task_id \in Ids, dependency_id \in Ids :
        LET r == remove_dependency(task_id, dependency_id)
        IN /\ last = NoCall
           /\ Apply(r, "remove_dependency", task_id, dependency_id)

\* The call returns: its caller (a handle_* function of the command line
\* interface) takes the return value, and the manager is ready for the next call.
Return ==
    /\ last # NoCall
    /\ last' = NoCall
    /\ UNCHANGED <<tasks, _task_map, scn, saved, faulty>>

Next ==
    \/ AddTask
    \/ UpdateTask
    \/ DeleteTask
    \/ CanCompleteTask
    \/ MarkTaskComplete
    \/ MarkTaskPending
    \/ AddDependency
    \/ RemoveDependency
    \/ Return

Spec == Init /\ [][Next]_vars

\* ------------------------------------------------------------------ projects and contexts
\* The lists passed to add_task as projects: None, ["", " "], ["w", " W "]
\* and ["w\t w"].
AddTaskProjectLists ==
    {<<>>, <<<<>>, <<" ">>>>, <<<<"w">>, <<" ", "W", " ">>>>, <<<<"w", "\t", " ", "w">>>>}

\* The lists passed to add_task as contexts: None and [" W "].
AddTaskContextLists == {<<>>, <<<<" ", "W", " ">>>>}

\* add_task with projects and contexts, on a registry of fewer than
\* MaxTagged tasks.
AddTaggedTask ==
    \E f \in AddTaskFields, projects \in AddTaskProjectLists,
       contexts \in AddTaskContextLists :
        \E temp_task_id \in FreshIds, now \in Times :
            LET r == add_task(f.title, null, f.priority, {}, projects, contexts,
                              temp_task_id, now)
            IN /\ last = NoCall
               /\ Len(tasks) < MaxTagged
               /\ ApplyArgs(r, "add_task", IF r.ret THEN temp_task_id ELSE 0, 0, <<>>,
                            [title |-> f.title, priority |-> f.priority,
                             depends_on_ids |-> {},
                             projects |-> projects, contexts |-> contexts])

AddProjectToTask ==
    \E task_id \in Ids, project_name \in ProjectInputs :
        LET r == add_project_to_task(task_id, project_name)
        IN /\ last = NoCall
           /\ ApplyCall(r, "add_project_to_task", task_id, 0, project_name)

RemoveProjectFromTask ==
    \E task_id \in Ids, project_name \in ProjectInputs :
        LET r == remove_project_from_task(task_id, project_name)
        IN /\ last = NoCall
           /\ ApplyCall(r, "remove_project_from_task", task_id, 0, project_name)

AddContextToTask ==
    \E task_id \in Ids, context_name \in ContextInputs :
        LET r == add_context_to_task(task_id, context_name)
        IN /\ last = NoCall
           /\ ApplyCall(r, "add_context_to_task", task_id, 0, context_name)

RemoveContextFromTask ==
    \E task_id \in Ids, context_name \in ContextInputs :
        LET r == remove_context_from_task(task_id, context_name)
        IN /\ last = NoCall
           /\ ApplyCall(r, "remove_context_from_task", task_id, 0, context_name)

InitTags == InitFrom(StoredTaggedDicts) /\ saved = Unobserved /\ faulty = FALSE

NextTags ==
    \/ AddTaggedTask
    \/ AddProjectToTask
    \/ RemoveProjectFromTask
    \/ AddContextToTask
    \/ RemoveContextFromTask
    \/ Return

SpecTags == InitTags /\ [][NextTags]_vars

\* ------------------------------------------------------------------ priorities and due dates
\* The dicts of a stored file of tasks with a priority and a due date; the
\* tasks of the file depend on no task or on task 1 and are in the projects
\* "w" and "w w".
StoredFieldDicts ==
    [task_id : Ids,
     priority : {"Alta", "Baixa"},
     status : {"Pendente", "Concluida"},
     due_date : {null, isoformat(1), isoformat(date_max)},
     creation_date : {isoformat(t) : t \in Times},
     completion_date : {isoformat(t) : t \in Times},
     depends_on_ids : {<<>>, <<1>>},
     projects : {<<<<"w">>, <<"w", " ", "w">>>>},
     contexts : {<<>>}]

\* The due_date_str arguments: None, a string that is no date, the first
\* date and the last one.
DueDateInputs == {null, BadDateStr, isoformat(1), isoformat(date_max)}

\* The calls of update_task of this behaviour.
FieldUpdates ==
    UpdatesOver({"due_date_str", "priority", "status", "eisenhower_quadrant"},
                {"Alta", "Baixa", "Urgente"}, DueDateInputs)

\* add_task with a priority and a due date, on a registry of fewer than
\* MaxListed tasks.
AddListedTask ==
    \E priority \in {"Alta", "Media", "Baixa", "Urgente"}, due_date_str \in DueDateInputs :
        \E temp_task_id \in FreshIds, now \in Times :
            LET r == add_task("t", due_date_str, priority, {}, <<>>, <<>>, temp_task_id, now)
            IN /\ last = NoCall
               /\ Len(tasks) < MaxListed
               /\ ApplyArgs(r, "add_task", IF r.ret THEN temp_task_id ELSE 0, 0, <<>>,
                            [title |-> "t", priority |-> priority, depends_on_ids |-> {},
                             projects |-> <<>>, contexts |-> <<>>])

UpdateListedTask ==
    \E task_id \in Ids, updates \in FieldUpdates, now \in Times :
        LET r == update_task(task_id, updates, now)
        IN /\ last = NoCall
           /\ Apply(r, "update_task", task_id, 0)

\* list_tasks changes nothing; its result goes to the caller.
ListTasks ==
    \E filters \in ListFilters, sort_by \in {"due_date", "priority"} :
        /\ last = NoCall
        /\ last' = [NoCall EXCEPT !.op = "list_tasks", !.filters = filters,
                                  !.sort_by = sort_by,
                                  !.listed = list_tasks(filters, sort_by)]
        /\ scn' = ScnIdle
        /\ UNCHANGED <<tasks, _task_map, saved, faulty>>

InitFields == InitFrom(StoredFieldDicts) /\ saved = Unobserved /\ faulty = FALSE

NextFields ==
    \/ AddListedTask
    \/ UpdateListedTask
    \/ MarkTaskComplete
    \/ MarkTaskPending
    \/ ListTasks
    \/ Return

SpecFields == InitFields /\ [][NextFields]_vars

\* ------------------------------------------------------------------ storage watched
\* The registry read from a stored file and changed by the operations that
\* add no task, with the storage watched, on a medium that writes every
\* file and on one where a write can fail.
InitStorage == InitFrom(StoredDicts) /\ saved = NothingSaved /\ faulty \in BOOLEAN

NextStorage ==
    \/ UpdateTask
    \/ DeleteTask
    \/ CanCompleteTask
    \/ MarkTaskComplete
    \/ MarkTaskPending
    \/ AddDependency
    \/ RemoveDependency
    \/ Return

SpecStorage == InitStorage /\ [][NextStorage]_vars

\* ------------------------------------------------------------------ properties
\* The registry as the claims read it: straight from the task list.
IdsIn(ts) == {ts[i].task_id : i \in DOMAIN ts}
TaskIn(ts, id) == ts[CHOOSE i \in DOMAIN ts : ts[i].task_id = id]
DepsIn(ts, id) == IF id \in IdsIn(ts) THEN TaskIn(ts, id).depends_on_ids ELSE {}
StatusIn(ts, id) == IF id \in IdsIn(ts) THEN TaskIn(ts, id).status ELSE "None"

\* The ids reached from the set S in at most n further edges; a task that is
\* not live has no outgoing edge.
RECURSIVE ReachIn(_, _, _)
ReachIn(ts, S, n) ==
    IF n = 0 THEN S
    ELSE ReachIn(ts, S \cup UNION {DepsIn(ts, x) : x \in S}, n - 1)

\* The ids reachable from id by a path of one or more edges.
ReachableFrom(ts, id) == ReachIn(ts, DepsIn(ts, id), NumIds)

Acyclic(ts) == \A id \in IdsIn(ts) : id \notin ReachableFrom(ts, id)

\* C1: a call that starts from an acyclic dependency graph leaves it acyclic;
\* and from an acyclic graph with edges A->B and B->C, add_dependency(C, A)
\* returns False and changes no task.
C1_AcyclicPreserved ==
    [][Acyclic(tasks) =>
         /\ Acyclic(tasks')
         /\ (/\ last'.op = "add_dependency"
             /\ \E b \in Ids : /\ b \in DepsIn(tasks, last'.dependency_id)
                               /\ last'.task_id \in DepsIn(tasks, b))
            => (~last'.ret /\ tasks' = tasks /\ _task_map' = _task_map)]_vars

\* C1 witness: add_dependency(C, A) has just been rejected as a cycle in an
\* acyclic graph where C is reached from A only through a third task B.
C1_Witness ==
    /\ last.op = "add_dependency"
    /\ last.msg = "CycleDetected"
    /\ Acyclic(tasks)
    /\ last.task_id \notin DepsIn(tasks, last.dependency_id)
    /\ \E b \in Ids \ {last.task_id, last.dependency_id} :
          /\ b \in DepsIn(tasks, last.dependency_id)
          /\ last.task_id \in DepsIn(tasks, b)

\* Invariant 3: every Concluida task has only Concluida tasks, or ids of no
\* live task, in its depends_on_ids.
Inv3(ts) ==
    \A id \in IdsIn(ts) :
        StatusIn(ts, id) = "Concluida" =>
            \A dep \in DepsIn(ts, id) :
                dep \in IdsIn(ts) => StatusIn(ts, dep) = "Concluida"

\* C2: no call takes a registry that satisfies invariant 3 to one that has a
\* Concluida task with a live Pendente dependency.
C2_Inv3Preserved == [][Inv3(tasks) => Inv3(tasks')]_vars

\* The live Pendente dependencies of task id.
PendingDepsIn(ts, id) ==
    {dep \in DepsIn(ts, id) : StatusIn(ts, dep) = "Pendente"}

\* C3: mark_task_complete on a Pendente task returns the task exactly when it
\* has no live Pendente dependency, and then the task is Concluida; otherwise
\* it reports all the live Pendente dependencies and leaves the task's status
\* and completion_date as they were.
C3_CompleteIffDepsComplete ==
    [][(/\ last'.op = "mark_task_complete"
        /\ StatusIn(tasks, last'.task_id) = "Pendente")
       => LET id == last'.task_id
          IN /\ last'.ret <=> PendingDepsIn(tasks, id) = {}
             /\ last'.ret => StatusIn(tasks', id) = "Concluida"
             /\ ~last'.ret =>
                  /\ last'.msg = "Blocked"
                  /\ last'.reported = PendingDepsIn(tasks, id)
                  /\ TaskIn(tasks', id).status = TaskIn(tasks, id).status
                  /\ TaskIn(tasks', id).completion_date = TaskIn(tasks, id).completion_date]_vars

\* C3 witness: mark_task_complete has just failed on a Pendente task and
\* reported two blocking dependencies.
C3_Witness ==
    /\ last.op = "mark_task_complete"
    /\ last.msg = "Blocked"
    /\ StatusIn(tasks, last.task_id) = "Pendente"
    /\ Cardinality(last.reported) >= 2

\* The Concluida tasks that have id directly in their depends_on_ids.
CompleteDependentsIn(ts, id) ==
    {other \in IdsIn(ts) : id \in DepsIn(ts, other) /\ StatusIn(ts, other) = "Concluida"}

\* C4: mark_task_pending on a Concluida task fails, reporting every Concluida
\* task that directly depends on it and changing nothing, exactly when there
\* is such a task; otherwise it succeeds and leaves the task Pendente with no
\* completion_date.
C4_PendingIffNoCompleteDependent ==
    [][(/\ last'.op = "mark_task_pending"
        /\ StatusIn(tasks, last'.task_id) = "Concluida")
       => LET id == last'.task_id
          IN /\ ~last'.ret <=> CompleteDependentsIn(tasks, id) # {}
             /\ ~last'.ret =>
                  /\ last'.msg = "WouldInvalidate"
                  /\ last'.reported = CompleteDependentsIn(tasks, id)
                  /\ tasks' = tasks
                  /\ _task_map' = _task_map
             /\ last'.ret =>
                  /\ TaskIn(tasks', id).status = "Pendente"
                  /\ TaskIn(tasks', id).completion_date = None]_vars

\* C4 witness: mark_task_pending has just succeeded on a task that a
\* Concluida task depends on only through a Pendente task in between.
C4_Witness ==
    /\ last.op = "mark_task_pending"
    /\ last.ret
    /\ StatusIn(tasks, last.task_id) = "Pendente"
    /\ \E b, c \in IdsIn(tasks) \ {last.task_id} :
          /\ b # c
          /\ last.task_id \in DepsIn(tasks, b)
          /\ b \in DepsIn(tasks, c)
          /\ last.task_id \notin DepsIn(tasks, c)
          /\ StatusIn(tasks, c) = "Concluida"

\* C5: along the scenario complete(B), complete(A), complete(B),
\* uncomplete(A), uncomplete(B), uncomplete(A) the calls fail, succeed,
\* succeed, fail blocked by B, succeed and succeed, and at the end both tasks
\* are Pendente with no completion_date.
C5_Scenario ==
    (scn.step > 0 /\ last # NoCall) =>
        /\ last.ret <=> scn.step \in {2, 3, 5, 6}
        /\ scn.step = 1 => last.msg = "Blocked" /\ last.reported = {scn.A}
        /\ scn.step = 4 => last.msg = "WouldInvalidate" /\ last.reported = {scn.B}
        /\ scn.step = 6 =>
             \A id \in {scn.A, scn.B} :
                /\ StatusIn(tasks, id) = "Pendente"
                /\ TaskIn(tasks, id).completion_date = None

\* C5 witness: the sixth call of the scenario has just returned.
C5_Witness == scn.step = 6 /\ last.op = "mark_task_pending" /\ last.task_id = scn.A

\* The live tasks that have id in their depends_on_ids.
DependentsIn(ts, id) == {other \in IdsIn(ts) : id \in DepsIn(ts, other)}

\* The list ts without its task id, the order of the others kept.
WithoutTask(ts, id) == SelectSeq(ts, LAMBDA t : t.task_id # id)

C7_CompletionDateIffComplete ==
    \A i \in DOMAIN tasks :
        tasks[i].completion_date # None <=> tasks[i].status = "Concluida"

\* C7 witness: update_task has just raised after it changed the status of a
\* task to Concluida.
C7_Witness ==
    /\ last.op = "update_task"
    /\ last.msg = "ValueError"
    /\ StatusIn(tasks, last.task_id) = "Concluida"
    /\ TaskIn(tasks, last.task_id).completion_date \in Times
    /\ \E i \in DOMAIN tasks : tasks[i].status = "Pendente"

\* The outcome of add_dependency(task_id, dependency_id) in the order the
\* claim gives it: equal ids first, then absent ids.
AddDependencyOutcome(selfFirst) ==
    LET t == last'.task_id
        d == last'.dependency_id
        unchanged == tasks' = tasks /\ _task_map' = _task_map
        self == ~last'.ret /\ last'.msg = "SelfDependency" /\ unchanged
        notFound == ~last'.ret /\ last'.msg = "NotFound" /\ unchanged
    IN last'.op = "add_dependency" =>
        IF selfFirst /\ t = d THEN self
        ELSE IF t \notin IdsIn(tasks) \/ d \notin IdsIn(tasks) THEN notFound
        ELSE IF t = d THEN self
        ELSE IF d \in DepsIn(tasks, t) THEN last'.ret /\ unchanged
        ELSE IF t \in ReachableFrom(tasks, d)
        THEN ~last'.ret /\ last'.msg = "CycleDetected" /\ unchanged
        ELSE /\ last'.ret
             /\ _task_map' = _task_map
             /\ tasks' = [tasks EXCEPT ![_task_map[t]].depends_on_ids = @ \cup {d}]
             /\ DepsIn(tasks', t) = DepsIn(tasks, t) \cup {d}

\* C8 as stated: SelfDependency if the ids are equal, NotFound if either is
\* absent, success without change if the edge exists, CycleDetected if
\* task_id is reachable from dependency_id, otherwise exactly the edge added.
C8_AddDependencyAsStated == [][AddDependencyOutcome(TRUE)]_vars

\* C8 amended: NotFound if either id is absent; otherwise SelfDependency if
\* the ids are equal, success without change if the edge exists,
\* CycleDetected if task_id is reachable from dependency_id, otherwise
\* exactly the edge task_id -> dependency_id added.
C8_AddDependency == [][AddDependencyOutcome(FALSE)]_vars

\* C8 witness: add_dependency has just added an edge to a graph that had edges.
C8_Witness ==
    /\ last.op = "add_dependency"
    /\ last.msg = "Added"
    /\ last.dependency_id \in DepsIn(tasks, last.task_id)
    /\ \E other \in IdsIn(tasks) \ {last.task_id} : DepsIn(tasks, other) # {}

NoSelfDependency(ts) == \A id \in IdsIn(ts) : id \notin DepsIn(ts, id)

\* C9: a call that starts from a registry in which no task depends on itself
\* leaves no task with its own id in depends_on_ids.
C9_NoSelfDependency == [][NoSelfDependency(tasks) => NoSelfDependency(tasks')]_vars

\* C9 witness: add_dependency(id, id) on a live task has just been refused
\* in a registry without self dependencies.
C9_Witness ==
    /\ last.op = "add_dependency"
    /\ last.msg = "SelfDependency"
    /\ last.task_id = last.dependency_id
    /\ NoSelfDependency(tasks)

\* C10: for distinct ids, _check_circular_dependency(task_id, dependency_id)
\* is true exactly when task_id is reachable from dependency_id by one or
\* more edges, where only live tasks have outgoing edges.
C10_CheckIsReachability ==
    \A task_id \in Ids, dependency_id \in Ids :
        task_id # dependency_id =>
            (_check_circular_dependency(task_id, dependency_id, {})
                <=> task_id \in ReachableFrom(tasks, dependency_id))

\* C10 witness: add_dependency has just found a cycle through a task whose
\* depends_on_ids also hold an id of no live task.
C10_Witness ==
    /\ last.op = "add_dependency"
    /\ last.msg = "CycleDetected"
    /\ \E x \in Ids : /\ x \in ReachableFrom(tasks, last.dependency_id)
                      /\ x \notin IdsIn(tasks)
                      /\ x # last.task_id

\* The operations claim C11 lists.
C11_Operations ==
    {"add_task", "add_dependency", "remove_dependency", "delete_task",
     "mark_task_complete", "mark_task_pending",
     "add_project_to_task", "add_context_to_task",
     "remove_project_from_task", "remove_context_from_task"}

\* The call that has not returned yet reports a failure: it returned
\* False or None, or raised, and did not print that the task already is in
\* the state asked for.
ReportsFailure(call) ==
    ~call.ret /\ call.msg \notin {"AlreadyComplete", "AlreadyPending"}

\* C11: a call of one of the listed operations that reports failure leaves
\* the task list (every task's status, completion_date, depends_on_ids,
\* projects and contexts) and the index exactly as they were.
C11_FailureChangesNothing ==
    [][(last'.op \in C11_Operations /\ ReportsFailure(last'))
          => (tasks' = tasks /\ _task_map' = _task_map)]_vars

\* The fields of task id that the invariants read.
InvariantFields(ts, id) ==
    LET t == TaskIn(ts, id)
    IN <<t.status, t.completion_date, t.depends_on_ids, t.projects, t.contexts>>

\* C12: an update_task call that accepts its updates leaves the status,
\* completion_date, depends_on_ids, projects and contexts of every task as
\* they were.
C12_FieldEditFrame ==
    [][(last'.op = "update_task" /\ last'.ret)
          => /\ IdsIn(tasks') = IdsIn(tasks)
             /\ \A id \in IdsIn(tasks) :
                    InvariantFields(tasks', id) = InvariantFields(tasks, id)]_vars

\* C13: the keys of _task_map are exactly the ids of the tasks in the list,
\* each key maps to the element of the list that has that id, the ids in the
\* list are pairwise distinct, and get_task_by_id(id) returns a task exactly
\* when a task with that id is in the list.
C13_IndexConsistent ==
    /\ DOMAIN _task_map = IdsIn(tasks)
    /\ \A id \in DOMAIN _task_map :
          _task_map[id] \in DOMAIN tasks /\ tasks[_task_map[id]].task_id = id
    /\ \A i, j \in DOMAIN tasks : i # j => tasks[i].task_id # tasks[j].task_id
    /\ \A id \in Ids :
          /\ get_task_by_id(id) # NoTask <=> id \in IdsIn(tasks)
          /\ id \in IdsIn(tasks) => get_task_by_id(id) = TaskIn(tasks, id)

\* C13 witness: delete_task has just removed a task from a list of three
\* built by loading and add_task, and the two tasks left are not in the
\* order of their ids.
C13_Witness ==
    /\ last.op = "delete_task"
    /\ last.ret
    /\ Len(tasks) = 2
    /\ tasks[1].task_id > tasks[2].task_id
    /\ _task_map[tasks[2].task_id] = 2

\* The edges of the dependency graph: the pairs <<task, dependency>>.
Edges(ts) == {e \in Ids \X Ids : e[1] \in IdsIn(ts) /\ e[2] \in DepsIn(ts, e[1])}

\* C14: when add_dependency(A, B) has returned True, the same call made
\* again returns True and leaves the edge set, and every task, as the first
\* call left them.
C14_AddDependencyIdempotent ==
    (last.op = "add_dependency" /\ last.ret) =>
        LET again == add_dependency(last.task_id, last.dependency_id)
        IN /\ again.ret
           /\ Edges(again.tasks) = Edges(tasks)
           /\ again.tasks = tasks
           /\ again.map = _task_map

\* C14 witness: add_dependency has just added a second dependency to a task.
C14_Witness ==
    /\ last.op = "add_dependency"
    /\ last.msg = "Added"
    /\ Cardinality(DepsIn(tasks, last.task_id)) >= 2
    /\ <<last.task_id, last.dependency_id>> \in Edges(tasks)

\* C15: remove_dependency(task_id, dependency_id) returns False, with the
\* message that the task or the dependency was not found and nothing
\* changed, when the task is absent or dependency_id is not in its
\* depends_on_ids; otherwise it returns True whatever the status of the two
\* tasks, exactly that edge is gone and nothing else changed, and an acyclic
\* graph stays acyclic, and a registry whose Concluida tasks have only
\* Concluida live dependencies stays so.
C15_RemoveDependency ==
    [][last'.op = "remove_dependency"
       => LET t == last'.task_id
              d == last'.dependency_id
          IN IF t \notin IdsIn(tasks) \/ d \notin DepsIn(tasks, t)
             THEN /\ ~last'.ret
                  /\ last'.msg = (IF t \notin IdsIn(tasks) THEN "NotFound"
                                  ELSE "NotDependent")
                  /\ tasks' = tasks
                  /\ _task_map' = _task_map
             ELSE /\ last'.ret
                  /\ Edges(tasks') = Edges(tasks) \ {<<t, d>>}
                  /\ tasks' = [tasks EXCEPT ![_task_map[t]].depends_on_ids = @ \ {d}]
                  /\ _task_map' = _task_map
                  /\ Acyclic(tasks) => Acyclic(tasks')
                  /\ NoSelfDependency(tasks) => NoSelfDependency(tasks')
                  /\ Inv3(tasks) => Inv3(tasks')]_vars

\* C15 witness: remove_dependency has just removed one of the two
\* dependencies of a Concluida task, in a registry that is acyclic and in
\* which every Concluida task has only Concluida live dependencies.
C15_Witness ==
    /\ last.op = "remove_dependency"
    /\ last.ret
    /\ StatusIn(tasks, last.task_id) = "Concluida"
    /\ StatusIn(tasks, last.dependency_id) = "Concluida"
    /\ Cardinality(DepsIn(tasks, last.task_id)) = 1
    /\ last.dependency_id \notin DepsIn(tasks, last.task_id)
    /\ Acyclic(tasks)
    /\ Inv3(tasks)

\* The tasks other than id are the same in ts1 and ts2.
OthersSame(ts1, ts2, id) ==
    /\ IdsIn(ts1) = IdsIn(ts2)
    /\ \A other \in IdsIn(ts1) \ {id} : TaskIn(ts1, other) = TaskIn(ts2, other)

\* C16: mark_task_complete on a Concluida task and mark_task_pending on a
\* Pendente task leave the task's status and completion_date and every
\* other task as they were, and the outcome is the message that the task
\* already is in that state, not a blocked or error outcome.
C16_NoOpTransitions ==
    [][LET id == last'.task_id
           same == /\ TaskIn(tasks', id).status = TaskIn(tasks, id).status
                   /\ TaskIn(tasks', id).completion_date = TaskIn(tasks, id).completion_date
                   /\ OthersSame(tasks, tasks', id)
       IN /\ (last'.op = "mark_task_complete" /\ StatusIn(tasks, id) = "Concluida")
                => (same /\ last'.msg = "AlreadyComplete")
          /\ (last'.op = "mark_task_pending" /\ StatusIn(tasks, id) = "Pendente")
                => (same /\ last'.msg = "AlreadyPending")]_vars

\* The outcome of mark_task_complete(id) on a live task whose
\* depends_on_ids hold ids that resolve to no live task: those ids are
\* removed and printed, the ids that resolve are kept, no other task
\* changes, and the call returns the task exactly when all the remaining
\* dependencies are Concluida (and, with pendingOnly, the task was Pendente).
CompletionAttempt(pendingOnly) ==
    LET id == last'.task_id
        remaining == DepsIn(tasks, id) \cap IdsIn(tasks)
        unknown == DepsIn(tasks, id) \ IdsIn(tasks)
    IN (last'.op = "mark_task_complete" /\ id \in IdsIn(tasks) /\ unknown # {}) =>
          /\ DepsIn(tasks', id) = remaining
          /\ last'.pruned = unknown
          /\ OthersSame(tasks, tasks', id)
          /\ last'.ret <=>
                /\ \A dep \in remaining : StatusIn(tasks, dep) = "Concluida"
                /\ pendingOnly => StatusIn(tasks, id) = "Pendente"
          /\ last'.ret => StatusIn(tasks', id) = "Concluida"

\* C17 as stated: mark_task_complete(id) removes the unknown ids from
\* depends_on_ids instead of failing on them, keeps the ids that resolve,
\* and succeeds exactly when all the remaining dependencies are Concluida.
C17_PruningAsStated == [][CompletionAttempt(FALSE)]_vars

\* C17 amended: mark_task_complete(id) removes the unknown ids from
\* depends_on_ids instead of failing on them, keeps the ids that resolve,
\* and succeeds exactly when the task is Pendente and all the remaining
\* dependencies are Concluida.
C17_Pruning == [][CompletionAttempt(TRUE)]_vars

\* C17 witness: mark_task_complete has just completed a task after removing
\* an unknown id from its depends_on_ids, which keep a Concluida dependency.
C17_Witness ==
    /\ last.op = "mark_task_complete"
    /\ last.ret
    /\ last.pruned # {}
    /\ StatusIn(tasks, last.task_id) = "Concluida"
    /\ DepsIn(tasks, last.task_id) # {}
    /\ DepsIn(tasks, last.task_id) \subseteq IdsIn(tasks)

\* C18: add_task fails, leaving the task list and the index unchanged,
\* when a requested dependency id is unknown or the title or priority is
\* invalid; otherwise exactly one task is appended to the list and the
\* index, with an id that was not in the registry, status Pendente, no
\* completion_date and depends_on_ids equal to the requested set.
C18_AddTask ==
    [][last'.op = "add_task"
       => LET args == last'.args
              invalid == \/ \E dep_id \in args.depends_on_ids : dep_id \notin IdsIn(tasks)
                         \/ args.title = ""
                         \/ args.priority \notin VALID_PRIORITIES
              new == tasks'[Len(tasks')]
          IN IF invalid
             THEN ~last'.ret /\ tasks' = tasks /\ _task_map' = _task_map
             ELSE /\ last'.ret
                  /\ Len(tasks') = Len(tasks) + 1
                  /\ SubSeq(tasks', 1, Len(tasks)) = tasks
                  /\ new.task_id = last'.task_id
                  /\ new.task_id \notin IdsIn(tasks)
                  /\ new.task_id \notin DOMAIN _task_map
                  /\ new.status = "Pendente"
                  /\ new.completion_date = None
                  /\ new.depends_on_ids = args.depends_on_ids
                  /\ DOMAIN _task_map' = DOMAIN _task_map \cup {new.task_id}
                  /\ _task_map'[new.task_id] = Len(tasks')
                  /\ \A id \in DOMAIN _task_map : _task_map'[id] = _task_map[id]]_vars

\* C18 witness: add_task has just appended a task with two dependencies.
C18_Witness ==
    /\ last.op = "add_task"
    /\ last.ret
    /\ Cardinality(last.args.depends_on_ids) = 2
    /\ DepsIn(tasks, last.task_id) = last.args.depends_on_ids
    /\ tasks[Len(tasks)].task_id = last.task_id

\* The set of project names (kind "projeto") or context names of task id.
TagsIn(ts, id, kind) ==
    IF kind = "projeto" THEN TaskIn(ts, id).projects ELSE TaskIn(ts, id).contexts

\* Task id is the same in ts1 and ts2 but for its names of the given kind.
SameButTags(ts1, ts2, id, kind) ==
    LET t1 == TaskIn(ts1, id)
        t2 == TaskIn(ts2, id)
    IN /\ t1.status = t2.status
       /\ t1.completion_date = t2.completion_date
       /\ t1.depends_on_ids = t2.depends_on_ids
       /\ kind = "projeto" => t1.contexts = t2.contexts
       /\ kind = "contexto" => t1.projects = t2.projects

\* C19: adding a project or context name whose normalized form is not empty
\* to a live task succeeds and leaves the set with the normalized form in
\* it, added if it was not there and nothing else changed, so that " W "
\* and "w" both leave "w", and "w\t w" leaves "w w"; removing a name whose
\* normalized form is not in the set fails and changes nothing; removing
\* one that is there removes exactly that name.
C19_TagMutation ==
    [][LET id == last'.task_id
           kind == IF last'.op \in {"add_project_to_task", "remove_project_from_task"}
                   THEN "projeto" ELSE "contexto"
           normalized == _normalize_tag(last'.tag)
           unchanged == tasks' = tasks /\ _task_map' = _task_map
           rest == /\ OthersSame(tasks, tasks', id)
                   /\ SameButTags(tasks, tasks', id, kind)
                   /\ _task_map' = _task_map
       IN /\ (/\ last'.op \in {"add_project_to_task", "add_context_to_task"}
              /\ id \in IdsIn(tasks)
              /\ normalized # <<>>)
             => /\ last'.ret
                /\ TagsIn(tasks', id, kind) = TagsIn(tasks, id, kind) \cup {normalized}
                /\ normalized \in TagsIn(tasks, id, kind) => unchanged
                /\ last'.tag \in {<<" ", "W", " ">>, <<"w">>, <<"W">>}
                      => <<"w">> \in TagsIn(tasks', id, kind)
                /\ last'.tag = <<"w", "\t", " ", "w">>
                      => <<"w", " ", "w">> \in TagsIn(tasks', id, kind)
                /\ rest
          /\ (/\ last'.op \in {"remove_project_from_task", "remove_context_from_task"}
              /\ id \in IdsIn(tasks))
             => IF normalized \notin TagsIn(tasks, id, kind)
                THEN ~last'.ret /\ last'.msg = "NotTagged" /\ unchanged
                ELSE /\ last'.ret
                     /\ TagsIn(tasks', id, kind) = TagsIn(tasks, id, kind) \ {normalized}
                     /\ last'.tag = <<" ", "W", " ">>
                           => <<"w">> \notin TagsIn(tasks', id, kind)
                     /\ rest]_vars

\* C19 witness: adding the project " W " to a task that has the projects
\* "w" and "w w" has just succeeded without adding anything.
C19_Witness ==
    /\ last.op = "add_project_to_task"
    /\ last.tag = <<" ", "W", " ">>
    /\ last.ret
    /\ last.msg = "AlreadyTagged"
    /\ TagsIn(tasks, last.task_id, "projeto") = {<<"w">>, <<"w", " ", "w">>}

\* C20: in every state, the state right after loading included, every
\* entry of every task's projects and contexts is its own normalized form.
C20_TagsNormalized ==
    \A i \in DOMAIN tasks :
        \A entry \in tasks[i].projects \cup tasks[i].contexts :
            _normalize_tag(entry) = entry

\* The snapshot last passed to the storage is the task list ts.
SavedIs(sv, ts) == sv.called /\ sv.data = tasks_data(ts)

\* C21: on a medium that never fails, when a call is over the snapshot last
\* passed to save_tasks is the whole task list in memory: a call that
\* changes a task leaves it saved, and a call that finds the snapshot
\* current leaves it current.
C21_SavedIsCurrent ==
    [][(/\ ~faulty
        /\ last' # NoCall
        /\ (tasks' # tasks \/ SavedIs(saved, tasks)))
       => SavedIs(saved', tasks')]_vars

\* C22: when a write of the file fails within a call, the call reports the
\* failure to its caller: it does not return what it returns on success.
C22_SaveFailureReported == [][last'.save_errors # {} => ~last'.ret]_vars

Rank(priority) == CASE priority = "Alta" -> 1 [] priority = "Media" -> 2 [] OTHER -> 3

\* Task t passes the filters of a list_tasks call.
Matches(t, filters) ==
    /\ "status" \in filters.keys => t.status = filters.status
    /\ "priority" \in filters.keys => t.priority = filters.priority

\* The list is in the order of the default sort: by rank of priority and,
\* within a priority, by due date, the tasks without a due date last.
DefaultOrder(list) ==
    \A i, j \in DOMAIN list :
        i < j =>
            \/ Rank(list[i].priority) < Rank(list[j].priority)
            \/ /\ list[i].priority = list[j].priority
               /\ \/ list[j].due_date = None
                  \/ /\ list[i].due_date # None
                     /\ list[i].due_date <= list[j].due_date

\* The list holds each task of the registry that passes the filters once,
\* and nothing else.
PermutationOfMatches(list, filters) ==
    /\ Len(list) = Cardinality({i \in DOMAIN tasks : Matches(tasks[i], filters)})
    /\ \A i \in DOMAIN tasks :
        Matches(tasks[i], filters) => \E k \in DOMAIN list : list[k] = tasks[i]
    /\ \A k \in DOMAIN list :
        \E i \in DOMAIN tasks : list[k] = tasks[i] /\ Matches(tasks[i], filters)

\* C24: list_tasks with the default sort key returns the tasks that pass the
\* filters, each once, by rank of priority and, within a priority, by due
\* date with the tasks without a due date last.
C24_DefaultSort ==
    last.op = "list_tasks" /\ last.sort_by = "due_date"
        => /\ DefaultOrder(last.listed)
           /\ PermutationOfMatches(last.listed, last.filters)

\* The task_id and the creation_date of the tasks of a list, in order.
Identity(ts) == [i \in DOMAIN ts |-> <<ts[i].task_id, ts[i].creation_date>>]

\* The list without its p-th element.
Without(list, p) ==
    [k \in 1..(Len(list) - 1) |-> IF k < p THEN list[k] ELSE list[k + 1]]

\* C25: no step changes the task_id or the creation_date of a task: the
\* tasks keep both, a task at most is appended or one is removed, and the
\* index names every task by the task_id it has.
C25_IdentityImmutable ==
    [][/\ \/ Identity(tasks') = Identity(tasks)
          \/ /\ Len(tasks') = Len(tasks) + 1
             /\ SubSeq(Identity(tasks'), 1, Len(tasks)) = Identity(tasks)
          \/ \E p \in DOMAIN tasks : Identity(tasks') = Without(Identity(tasks), p)
       /\ \A id \in DOMAIN _task_map' : tasks'[_task_map'[id]].task_id = id]_vars

\* mark_task_pending has returned a task of a full registry, and the task
\* is Pendente and has a creation date.
C25_Witness ==
    /\ last.op = "mark_task_pending"
    /\ last.ret
    /\ Len(tasks) = NumIds
    /\ TaskIn(tasks, last.task_id).status = "Pendente"
    /\ TaskIn(tasks, last.task_id).creation_date \in Times

\* C26: on every registry, cyclic and self-referential graphs and unknown
\* ids included, _check_circular_dependency comes to an end: no chain of
\* nested calls is longer than the number of ids, and no call is made for
\* an id that is already on its path.
C26_CheckTerminates ==
    \A task_id \in Ids, dependency_id \in Ids :
        \A call \in check_calls(task_id, dependency_id, {}, 1) :
            /\ call.depth <= NumIds
            /\ call.dependency_id \notin call.visited
            /\ Cardinality(call.visited) = call.depth - 1

\* add_dependency has run the check, which made nested calls and found no
\* path, on a registry that has a cycle and an unknown id.
C26_Witness ==
    /\ last.op = "add_dependency"
    /\ last.msg = "Added"
    /\ ~Acyclic(tasks)
    /\ \E id \in IdsIn(tasks) : DepsIn(tasks, id) \ IdsIn(tasks) # {}
    /\ \E call \in check_calls(last.task_id, last.dependency_id, {}, 1) : call.depth > 1

\* C27: an update_task call that is rejected with a validation error
\* changes no field of any task.
C27_RejectedEditAtomic ==
    [][last'.op = "update_task" /\ last'.msg = "ValueError" => tasks' = tasks]_vars

\* C28: when add_dependency(task_id, dependency_id) adds an edge, task_id is
\* not a Concluida task with dependency_id a Pendente one.
C28_NoEdgeFromCompleteToPending ==
    [][last'.op = "add_dependency" /\ last'.msg = "Added"
       => ~(/\ StatusIn(tasks', last'.task_id) = "Concluida"
            /\ StatusIn(tasks', last'.dependency_id) = "Pendente")]_vars

\* Every id in the depends_on_ids of a task of the list is the id of a task
\* of the list.
NoDangling(ts) == \A id \in IdsIn(ts) : DepsIn(ts, id) \subseteq IdsIn(ts)

StoredPendingDicts ==
    {data \in StoredDicts :
        /\ data.status = "Pendente"
        /\ data.creation_date # null
        /\ data.completion_date = null}

\* The registry read from a stored file of Pendente tasks whose dependencies
\* form no cycle.
InitLive ==
    /\ InitFrom(StoredPendingDicts)
    /\ Acyclic(tasks)
    /\ saved = Unobserved
    /\ faulty = FALSE

\* The caller takes what the call before returned and calls
\* mark_task_complete(task_id).
AttemptComplete(task_id) ==
    \E now \in Times :
        LET r == mark_task_complete(task_id, now)
        IN Apply(r, "mark_task_complete", task_id, 0)

NextLive == \E task_id \in Ids : AttemptComplete(task_id)

\* No operation but mark_task_complete is called, and for no task do the
\* attempts to complete it stop while an attempt would change something.
SpecLive ==
    /\ InitLive
    /\ [][NextLive]_vars
    /\ \A task_id \in Ids : WF_vars(AttemptComplete(task_id))

\* C30: from an acyclic registry of Pendente tasks, when mark_task_complete
\* is attempted on every task again and again and nothing else is called,
\* eventually every task is Concluida.
C30_EveryTaskCompleted == <>(\A i \in DOMAIN tasks : tasks[i].status = "Concluida")

\* The attempts have completed both tasks of a registry in which one
\* depends on the other.
C30_Witness ==
    /\ last.op = "mark_task_complete"
    /\ last.ret
    /\ Len(tasks) = 2
    /\ \A i \in DOMAIN tasks : tasks[i].status = "Concluida"
    /\ \E i \in DOMAIN tasks : tasks[i].depends_on_ids \cap IdsIn(tasks) # {}

\* ------------------------------------------------------------------ loading watched
\* The observer of a storage whose file was read and not written since.
Loaded(file) == [observed |-> FALSE, called |-> FALSE, data |-> file]

\* The dicts of a stored file whose records have a creation date and no
\* completion date.
StoredLoadDicts ==
    {data \in StoredDicts : data.creation_date # null /\ data.completion_date = null}

\* TaskManager.__init__ on any stored file of at most MaxStored records,
\* with the list of dicts read kept by the observer of the storage.
InitLoad ==
    \E n \in 0..MaxStored :
        \E file \in StoredFiles(n, StoredLoadDicts), nows \in [1..n -> Times] :
            /\ DistinctIds(file)
            /\ tasks = load_tasks(file, nows)
            /\ _task_map = TaskMapOf(load_tasks(file, nows))
            /\ last = NoCall
            /\ scn = ScnIdle
            /\ saved = Loaded(file)
            /\ faulty = FALSE

SpecLoad == InitLoad /\ [][Next]_vars

\* The ids in the depends_on_ids of task id that are ids of no task.
UnknownDepsIn(ts, id) == DepsIn(ts, id) \ IdsIn(ts)

C32_SaveIsLastStep ==
    [][last'.saves > 0
       => /\ last'.saves = 1
          /\ SavedIs(saved', tasks')
          /\ last'.op # "can_complete_task" => ~ReportsFailure(last')]_vars

\* Task t2 is task t1 but for its status, completion_date and depends_on_ids.
SameButLifeCycle(t1, t2) ==
    t2 = [t1 EXCEPT !.status = t2.status,
                    !.completion_date = t2.completion_date,
                    !.depends_on_ids = t2.depends_on_ids]

\* C33: a mark_task_complete(id) or mark_task_pending(id) call that returns
\* the task leaves every other task, the order of the list and the index as
\* they were, and changes of task id nothing but its status and
\* completion_date and, for mark_task_complete, its depends_on_ids, which
\* lose the ids of no task and nothing else.
C33_LifeCycleFrame ==
    [][(last'.op \in {"mark_task_complete", "mark_task_pending"} /\ last'.ret)
       => LET id == last'.task_id
          IN /\ id \in IdsIn(tasks)
             /\ OthersSame(tasks, tasks', id)
             /\ [i \in DOMAIN tasks' |-> tasks'[i].task_id]
                   = [i \in DOMAIN tasks |-> tasks[i].task_id]
             /\ _task_map' = _task_map
             /\ SameButLifeCycle(TaskIn(tasks, id), TaskIn(tasks', id))
             /\ DepsIn(tasks', id) =
                   IF last'.op = "mark_task_complete"
                   THEN DepsIn(tasks, id) \cap IdsIn(tasks)
                   ELSE DepsIn(tasks, id)
             /\ StatusIn(tasks', id) # StatusIn(tasks, id)]_vars

\* C33 witness: mark_task_complete has just completed a task, removing an
\* unknown id from its depends_on_ids, in a registry where another task is
\* Pendente and holds an unknown id.
C33_Witness ==
    /\ last.op = "mark_task_complete"
    /\ last.ret
    /\ last.pruned # {}
    /\ StatusIn(tasks, last.task_id) = "Concluida"
    /\ \E id \in IdsIn(tasks) \ {last.task_id} :
          /\ StatusIn(tasks, id) = "Pendente"
          /\ DepsIn(tasks, id) \ IdsIn(tasks) # {}

\* C34: the list list_tasks returns is ordered by the key asked for: with
\* sort_by priority no task stands before a task of a higher priority,
\* whatever their due dates, and with sort_by due_date no task with a due
\* date stands before a task with an earlier one.
C34_SortedByRequestedKey ==
    [][last'.op = "list_tasks"
       => \A i, j \in DOMAIN last'.listed :
             i < j =>
                LET a == last'.listed[i]
                    b == last'.listed[j]
                IN /\ last'.sort_by = "priority" => Rank(a.priority) <= Rank(b.priority)
                   /\ (/\ last'.sort_by = "due_date"
                       /\ a.due_date # None
                       /\ b.due_date # None) => a.due_date <= b.due_date]_vars

\* No task of the list has the empty string among its projects or contexts.
NoEmptyTag(ts) == \A i \in DOMAIN ts : <<>> \notin ts[i].projects \cup ts[i].contexts

\* C35: a call made on a registry in which no task has an empty project or
\* context name leaves no task with one, whatever names it is passed.
C35_NoEmptyTag == [][NoEmptyTag(tasks) => NoEmptyTag(tasks')]_vars

\* ------------------------------------------------------------------ duplicate ids
\* Two records of the stored file have the same task_id.
DuplicateIds(file) == ~DistinctIds(file)

\* TaskManager.__init__ on any stored file of at most MaxStored records in
\* which two records have the same task_id.
InitDuplicates ==
    \E n \in 0..MaxStored :
        \E file \in StoredFiles(n, StoredLoadDicts), nows \in [1..n -> Times] :
            /\ DuplicateIds(file)
            /\ tasks = load_tasks(file, nows)
            /\ _task_map = TaskMapOf(load_tasks(file, nows))
            /\ last = NoCall
            /\ scn = ScnIdle
            /\ saved = Unobserved
            /\ faulty = FALSE

SpecDuplicates == InitDuplicates /\ [][Next]_vars

\* Every task object of the list is the object the index gives for its id.
EveryTaskIndexed(ts, map) ==
    \A i \in DOMAIN ts : ts[i].task_id \in DOMAIN map /\ map[ts[i].task_id] = i

\* C36: in a manager constructed from a stored file in which two records
\* have the same task_id, right after construction and after every call
\* every task of the list is the one get_task_by_id returns for its id, and
\* a delete_task(id) call that returns True leaves no task with that id in
\* the list.
C36_IndexConsistentWithDuplicates ==
    /\ EveryTaskIndexed(tasks, _task_map)
    /\ [][/\ EveryTaskIndexed(tasks', _task_map')
          /\ (last'.op = "delete_task" /\ last'.ret)
                => last'.task_id \notin IdsIn(tasks')]_vars
====
